---- MODULE Spec2Model ----
(***************************************************************************)
(* Model of report_sender.py: the __main__ pipeline                        *)
(*     get_sheet_data -> build_report -> send_email                        *)
(* and the pure computation of build_report (summary metrics, table rows,  *)
(* header cells).                                                          *)
(*                                                                         *)
(* Text is a sequence of one-character strings, so that int(), float(),    *)
(* str() and str.lower() are computed character by character.  Markup the  *)
(* program emits is a sequence of tokens: a tag is one token, cell text is *)
(* its characters.  Non-integral numbers are held in tenths (10.5 is 105). *)
(***************************************************************************)
EXTENDS Integers, Sequences, FiniteSets, TLC

VARIABLES
    sheet,        \* rows of the remote worksheet (what get_all_records returns)
    pc,           \* position of __main__: "main","fetch","build","send","except","done"
    data,         \* local `data` of __main__
    html_report,  \* local `html_report` of __main__ (the parts of the document)
    outbox,       \* messages handed to server.sendmail
    calls,        \* stages invoked so far, in order
    returned,     \* stages that returned without raising, in order
    raised,       \* stage whose exception reached the handler, or "none"
    console,      \* lines printed by __main__ itself
    exit_status   \* -1 while running, then the status of the interpreter

vars == <<sheet, pc, data, html_report, outbox, calls, returned, raised, console, exit_status>>

(***************************************************************************)
(* Bounds                                                                  *)
(***************************************************************************)
MaxRows == 3

(***************************************************************************)
(* Cell values: int, float (in tenths) or str, as gspread hands them over  *)
(* and as callers of build_report may pass them.                           *)
(***************************************************************************)
IntV(n)   == [kind |-> "int",   n |-> n, s |-> <<>>]
FloatV(t) == [kind |-> "float", n |-> t, s |-> <<>>]
StrV(s)   == [kind |-> "str",   n |-> 0, s |-> s]

Digits == <<"0", "1", "2", "3", "4", "5", "6", "7", "8", "9">>
Upper  == <<"A", "B", "C", "D", "E", "F", "G", "H", "I", "J", "K", "L", "M",
            "N", "O", "P", "Q", "R", "S", "T", "U", "V", "W", "X", "Y", "Z">>
Lower  == <<"a", "b", "c", "d", "e", "f", "g", "h", "i", "j", "k", "l", "m",
            "n", "o", "p", "q", "r", "s", "t", "u", "v", "w", "x", "y", "z">>

IsDigit(c)  == \E d \in DOMAIN Digits : Digits[d] = c
DigitVal(c) == (CHOOSE d \in DOMAIN Digits : Digits[d] = c) - 1

AllDigits(s) == \A i \in DOMAIN s : IsDigit(s[i])

RECURSIVE DigitsVal(_)
DigitsVal(s) ==
    IF s = <<>> THEN 0
    ELSE 10 * DigitsVal(SubSeq(s, 1, Len(s) - 1)) + DigitVal(s[Len(s)])

RECURSIVE NatToText(_)
NatToText(n) ==
    IF n < 10 THEN <<Digits[n + 1]>>
    ELSE NatToText(n \div 10) \o <<Digits[(n % 10) + 1]>>

Abs(n) == IF n < 0 THEN -n ELSE n

\* Truncation toward zero, as int() of a float truncates.
Trunc(t, d) == IF t < 0 THEN -((-t) \div d) ELSE t \div d

\* str.strip() of the blanks int() and float() skip on both sides.
RECURSIVE Strip(_)
Strip(s) ==
    IF s = <<>> THEN s
    ELSE IF Head(s) = " " THEN Strip(Tail(s))
    ELSE IF s[Len(s)] = " " THEN Strip(SubSeq(s, 1, Len(s) - 1))
    ELSE s

HasSign(s) == s # <<>> /\ Head(s) \in {"-", "+"}
Unsigned(s) == IF HasSign(s) THEN Tail(s) ELSE s
SignOf(s) == IF s # <<>> /\ Head(s) = "-" THEN -1 ELSE 1

Ok(v)  == [ok |-> TRUE, v |-> v]
Raise  == [ok |-> FALSE, v |-> 0]

\* int(text): optional sign, then one or more decimal digits; else ValueError.
ParseInt(s) ==
    LET body == Unsigned(Strip(s))
    IN  IF body # <<>> /\ AllDigits(body)
        THEN Ok(SignOf(Strip(s)) * DigitsVal(body))
        ELSE Raise

\* Position of the first "." in s, or 0.
DotAt(s) == IF \E i \in DOMAIN s : s[i] = "."
            THEN CHOOSE i \in DOMAIN s : s[i] = "." /\ \A j \in 1..(i - 1) : s[j] # "."
            ELSE 0

\* float(text): optional sign, digits with at most one ".", at least one
\* digit; else ValueError.  The result is in tenths.
ParseFloat(s) ==
    LET body  == Unsigned(Strip(s))
        dot   == DotAt(body)
        whole == IF dot = 0 THEN body ELSE SubSeq(body, 1, dot - 1)
        frac  == IF dot = 0 THEN <<>> ELSE SubSeq(body, dot + 1, Len(body))
    IN  IF AllDigits(whole) /\ AllDigits(frac) /\ Len(whole) + Len(frac) > 0
        THEN Ok(SignOf(Strip(s)) *
                (10 * DigitsVal(whole) + (IF frac = <<>> THEN 0 ELSE DigitVal(frac[1]))))
        ELSE Raise

\* int(x)
PyInt(x) ==
    IF x.kind = "int" THEN Ok(x.n)
    ELSE IF x.kind = "float" THEN Ok(Trunc(x.n, 10))
    ELSE ParseInt(x.s)

\* float(x), in tenths
PyFloat(x) ==
    IF x.kind = "int" THEN Ok(10 * x.n)
    ELSE IF x.kind = "float" THEN Ok(x.n)
    ELSE ParseFloat(x.s)

\* str(x), also what an f-string field renders
PyStr(x) ==
    IF x.kind = "str" THEN x.s
    ELSE IF x.kind = "int"
         THEN (IF x.n < 0 THEN <<"-">> ELSE <<>>) \o NatToText(Abs(x.n))
    ELSE (IF x.n < 0 THEN <<"-">> ELSE <<>>) \o NatToText(Abs(x.n) \div 10)
         \o <<".">> \o NatToText(Abs(x.n) % 10)

LowerChar(c) ==
    IF \E i \in DOMAIN Upper : Upper[i] = c
    THEN Lower[CHOOSE i \in DOMAIN Upper : Upper[i] = c]
    ELSE c

\* str.lower()
PyLower(s) == [i \in DOMAIN s |-> LowerChar(s[i])]


(***************************************************************************)
(* Records: a row is a sequence of key/value pairs in column order (a      *)
(* Python dict keeps insertion order and has no repeated key).             *)
(***************************************************************************)
KV(k, v) == [k |-> k, v |-> v]

HasKey(row, key) == \E i \in DOMAIN row : row[i].k = key

\* row.get(key, default)
Get(row, key, default) ==
    IF HasKey(row, key)
    THEN row[CHOOSE i \in DOMAIN row : row[i].k = key].v
    ELSE default

\* row.keys() and row.values()
Keys(row)   == [i \in DOMAIN row |-> row[i].k]
Values(row) == [i \in DOMAIN row |-> row[i].v]

T_A         == <<"A">>
T_B         == <<"B">>
T_Completed == <<"C", "o", "m", "p", "l", "e", "t", "e", "d">>
T_COMPLETED == <<"C", "O", "M", "P", "L", "E", "T", "E", "D">>
T_completed == <<"c", "o", "m", "p", "l", "e", "t", "e", "d">>
T_pending   == <<"p", "e", "n", "d", "i", "n", "g">>
T_Complete  == <<"C", "o", "m", "p", "l", "e", "t", "e">>
T_NoData    == <<"N", "o", " ", "d", "a", "t", "a", " ", "f", "o", "u", "n", "d">>

\* The rows a worksheet may hold.  The first two are the rows of the
\* documented example; the others vary the value types, the casing of
\* Status, the columns present and their order.
Rows == {
    <<KV("Item", StrV(T_A)), KV("Sales", StrV(<<"3">>)),
      KV("Revenue", StrV(<<"1", "0", ".", "5">>)), KV("Status", StrV(T_Completed))>>,
    <<KV("Item", StrV(T_B)), KV("Sales", StrV(<<"2">>)),
      KV("Revenue", StrV(<<"5", ".", "0">>)), KV("Status", StrV(T_pending))>>,
    <<KV("Item", StrV(T_A)), KV("Sales", IntV(4)),
      KV("Revenue", FloatV(12345)), KV("Status", StrV(T_COMPLETED))>>,
    <<KV("Sales", FloatV(-25)), KV("Revenue", IntV(7)), KV("Status", StrV(T_completed))>>,
    <<KV("Item", StrV(T_B)), KV("Revenue", StrV(<<"5", ".", "0">>)),
      KV("Status", StrV(T_Completed))>>,
    <<KV("Item", StrV(T_A)), KV("Sales", IntV(1))>>,
    <<KV("Item", StrV(T_A)), KV("Sales", StrV(<<"2", ".", "5">>)),
      KV("Revenue", StrV(<<"1", ".", "5">>)), KV("Status", StrV(T_Completed))>>,
    <<KV("Item", StrV(T_B)), KV("Sales", StrV(<<"x">>)),
      KV("Revenue", StrV(<<"1", ".", "5">>)), KV("Status", StrV(T_Completed))>>,
    <<KV("Item", StrV(T_A)), KV("Sales", StrV(<<"1">>)),
      KV("Revenue", StrV(<<>>)), KV("Status", StrV(T_COMPLETED))>>,
    <<KV("Item", StrV(T_B)), KV("Sales", StrV(<<" ", "-", "1", " ">>)),
      KV("Revenue", StrV(<<"-", ".", "5">>)), KV("Status", StrV(T_Complete))>>
}

Sheets == UNION {[1..n -> Rows] : n \in 0..MaxRows}

(***************************************************************************)
(* build_report: summary metrics                                           *)
(***************************************************************************)
RECURSIVE SumSeq(_)
SumSeq(s) == IF s = <<>> THEN 0 ELSE Head(s) + SumSeq(Tail(s))

\* int(row.get("Sales", 0)) and float(row.get("Revenue", 0))
SalesOf(row)   == PyInt(Get(row, "Sales", IntV(0)))
RevenueOf(row) == PyFloat(Get(row, "Revenue", IntV(0)))

\* str(row.get("Status", "")).lower() == "completed"
IsCompletedExact(row) == PyStr(Get(row, "Status", StrV(<<>>))) = T_completed

IsCompleted(row) == PyLower(PyStr(Get(row, "Status", StrV(<<>>)))) = T_completed

\* Some coercion in the try block raises, so the except clause runs.
CoercionRaises(rows) ==
    \E i \in DOMAIN rows : ~SalesOf(rows[i]).ok \/ ~RevenueOf(rows[i]).ok

Zeros == [total_sales |-> 0, total_revenue |-> 0, completed |-> 0]

Sums(rows) ==
    [total_sales   |-> SumSeq([i \in DOMAIN rows |-> SalesOf(rows[i]).v]),
     total_revenue |-> SumSeq([i \in DOMAIN rows |-> RevenueOf(rows[i]).v]),
     completed     |-> Cardinality({i \in DOMAIN rows : IsCompleted(rows[i])})]

\* A variant that skips the rows whose coercion raises and keeps the rest.
SummarySkippingBadRows(rows) ==
    Sums(SelectSeq(rows, LAMBDA r : SalesOf(r).ok /\ RevenueOf(r).ok))

\* The try/except block: the three sums, or zeros for all of them.
Summary(rows) == IF CoercionRaises(rows) THEN Zeros ELSE Sums(rows)

(***************************************************************************)
(* build_report: markup                                                    *)
(***************************************************************************)
TD_OPEN   == "<td style='padding:10px 14px; border-bottom:1px solid #eee;'>"
TD_CLOSE  == "</td>"
TH_OPEN   == "<th style='padding:12px 14px; text-align:left; background:#1a1a2e; color:#fff; font-weight:600;'>"
TH_PLAIN  == "<th>"
TH_CLOSE  == "</th>"
TR_SHADED == "<tr style='background:#f9f7f4;'>"
TR_PLAIN  == "<tr style='background:#ffffff;'>"
TR_CLOSE  == "</tr>"

RECURSIVE Join(_)
Join(parts) == IF parts = <<>> THEN <<>> ELSE Head(parts) \o Join(Tail(parts))

RowBgOddShaded(i) == IF i % 2 = 1 THEN TR_SHADED ELSE TR_PLAIN

\* bg of the row at index i (from 0)
RowBg(i) == IF i % 2 = 0 THEN TR_SHADED ELSE TR_PLAIN

Cells(row) ==
    Join([j \in DOMAIN row |-> <<TD_OPEN>> \o PyStr(row[j].v) \o <<TD_CLOSE>>])

\* the loop over enumerate(data)
TableRows(rows) ==
    Join([i \in DOMAIN rows |-> <<RowBg(i - 1)>> \o Cells(rows[i]) \o <<TR_CLOSE>>])

KeyText(k) ==
    CASE k = "Item"    -> <<"I", "t", "e", "m">>
      [] k = "Sales"   -> <<"S", "a", "l", "e", "s">>
      [] k = "Revenue" -> <<"R", "e", "v", "e", "n", "u", "e">>
      [] k = "Status"  -> <<"S", "t", "a", "t", "u", "s">>

HeaderCells(row) ==
    Join([j \in DOMAIN row |-> <<TH_OPEN>> \o KeyText(row[j].k) \o <<TH_CLOSE>>])

HeadersOfLastRow(rows) ==
    IF rows # <<>> THEN HeaderCells(rows[Len(rows)])
    ELSE <<TH_PLAIN>> \o T_NoData \o <<TH_CLOSE>>

HeadersNoPlaceholder(rows) ==
    IF rows # <<>> THEN HeaderCells(rows[1]) ELSE <<>>

\* the header cells: the first row's keys, or the placeholder
Headers(rows) ==
    IF rows # <<>> THEN HeaderCells(rows[1])
    ELSE <<TH_PLAIN>> \o T_NoData \o <<TH_CLOSE>>

Pad3(n) == <<Digits[(n \div 100) + 1], Digits[((n \div 10) % 10) + 1], Digits[(n % 10) + 1]>>

RECURSIVE Grouped(_)
Grouped(n) ==
    IF n < 1000 THEN NatToText(n)
    ELSE Grouped(n \div 1000) \o <<",">> \o Pad3(n % 1000)

\* f"${total_revenue:,.2f}" for an amount in tenths
RevenueText(t) ==
    <<"$">> \o (IF t < 0 THEN <<"-">> ELSE <<>>) \o Grouped(Abs(t) \div 10)
    \o <<".", Digits[(Abs(t) % 10) + 1], "0">>

NoReport ==
    [total_sales |-> 0, total_revenue |-> 0, completed |-> 0,
     revenue_text |-> <<>>, headers |-> <<>>, table_rows |-> <<>>]

Document(summary, rows) ==
    [total_sales   |-> summary.total_sales,
     total_revenue |-> summary.total_revenue,
     completed     |-> summary.completed,
     revenue_text  |-> RevenueText(summary.total_revenue),
     headers       |-> Headers(rows),
     table_rows    |-> TableRows(rows)]

\* A variant whose except clause also empties the rows it goes on to render.
BuildReportClearingOnFallback(rows) ==
    Document(Summary(rows), IF CoercionRaises(rows) THEN <<>> ELSE rows)

\* build_report(data): the parts the template interpolates
build_report(rows) == Document(Summary(rows), rows)

(***************************************************************************)
(* __main__                                                                *)
(***************************************************************************)
\* A variant in which a failed stage is skipped over and the run goes on.
OnRaiseResume(stage) ==
    CASE stage = "get_sheet_data" -> "build"
      [] stage = "build_report"   -> "send"
      [] OTHER                    -> "except"

\* Where control goes when `stage` raises inside the try block.
OnRaise(stage) == "except"

\* The status the interpreter ends with once the script has run off its end.
ExitStatus == 0

Init ==
    /\ sheet \in Sheets
    /\ pc = "main"
    /\ data = <<>>
    /\ html_report = NoReport
    /\ outbox = <<>>
    /\ calls = <<>>
    /\ returned = <<>>
    /\ raised = "none"
    /\ console = <<>>
    /\ exit_status = -1

\* The banner printed before the try block.
Start ==
    /\ pc = "main"
    /\ pc' = "fetch"
    /\ console' = console \o <<"starting">>
    /\ UNCHANGED <<sheet, data, html_report, outbox, calls, returned, raised, exit_status>>

\* data = get_sheet_data()
GetSheetData ==
    /\ pc = "fetch"
    /\ calls' = Append(calls, "get_sheet_data")
    /\ returned' = Append(returned, "get_sheet_data")
    /\ data' = sheet
    /\ console' = console \o <<"connecting", "found">>
    /\ pc' = "build"
    /\ UNCHANGED <<sheet, html_report, outbox, raised, exit_status>>

\* get_sheet_data() raises: credentials, lookup of the sheet or the network.
GetSheetDataRaises ==
    /\ pc = "fetch"
    /\ calls' = Append(calls, "get_sheet_data")
    /\ raised' = "get_sheet_data"
    /\ console' = console \o <<"connecting">>
    /\ pc' = OnRaise("get_sheet_data")
    /\ UNCHANGED <<sheet, data, html_report, outbox, returned, exit_status>>

\* html_report = build_report(data)
BuildReport ==
    /\ pc = "build"
    /\ calls' = Append(calls, "build_report")
    /\ returned' = Append(returned, "build_report")
    /\ html_report' = build_report(data)
    /\ console' = console \o <<"building", "built">>
    /\ pc' = "send"
    /\ UNCHANGED <<sheet, data, outbox, raised, exit_status>>

\* build_report(data) raises: nothing in it is guarded but the three sums, so
\* an exception of its console writes reaches the caller.
BuildReportRaises ==
    /\ pc = "build"
    /\ calls' = Append(calls, "build_report")
    /\ raised' = "build_report"
    /\ pc' = OnRaise("build_report")
    /\ UNCHANGED <<sheet, data, html_report, outbox, returned, console, exit_status>>

\* send_email(html_report) and the closing lines of the try block
SendEmail ==
    /\ pc = "send"
    /\ calls' = Append(calls, "send_email")
    /\ returned' = Append(returned, "send_email")
    /\ outbox' = Append(outbox, html_report)
    /\ console' = console \o <<"sending", "sent", "done">>
    /\ pc' = "done"
    /\ exit_status' = ExitStatus
    /\ UNCHANGED <<sheet, data, html_report, raised>>

\* send_email raises before server.sendmail: connection or login.
SendEmailRaises ==
    /\ pc = "send"
    /\ calls' = Append(calls, "send_email")
    /\ raised' = "send_email"
    /\ console' = console \o <<"sending">>
    /\ pc' = OnRaise("send_email")
    /\ UNCHANGED <<sheet, data, html_report, outbox, returned, exit_status>>

\* send_email raises after server.sendmail: leaving the `with` block.
SendEmailRaisesAfterSendmail ==
    /\ pc = "send"
    /\ calls' = Append(calls, "send_email")
    /\ raised' = "send_email"
    /\ outbox' = Append(outbox, html_report)
    /\ console' = console \o <<"sending">>
    /\ pc' = OnRaise("send_email")
    /\ UNCHANGED <<sheet, data, html_report, returned, exit_status>>

\* except Exception as e: the error and the hint are printed, and the
\* script runs off its end.
Handler ==
    /\ pc = "except"
    /\ console' = console \o <<"error", "hint">>
    /\ pc' = "done"
    /\ exit_status' = ExitStatus
    /\ UNCHANGED <<sheet, data, html_report, outbox, calls, returned, raised>>

Next ==
    \/ Start
    \/ GetSheetData
    \/ GetSheetDataRaises
    \/ BuildReport
    \/ BuildReportRaises
    \/ SendEmail
    \/ SendEmailRaises
    \/ SendEmailRaisesAfterSendmail
    \/ Handler

Spec == Init /\ [][Next]_vars

\* One thread runs the script: once control is in the except clause, its two
\* prints run and the script ends.
FairSpec == Spec /\ WF_vars(Handler)

(***************************************************************************)
(* Reading the emitted markup back                                         *)
(***************************************************************************)
\* Position of the first token equal to t, or 0.
FirstIndex(toks, t) ==
    IF \E i \in DOMAIN toks : toks[i] = t
    THEN CHOOSE i \in DOMAIN toks : toks[i] = t /\ \A j \in 1..(i - 1) : toks[j] # t
    ELSE 0

\* The texts of the cells of a run of markup: what lies between each opening
\* tag of `opens` and the next `close`.
RECURSIVE ParseCells(_, _, _)
ParseCells(toks, opens, close) ==
    IF toks = <<>> THEN <<>>
    ELSE IF Head(toks) \in opens
    THEN LET e == FirstIndex(toks, close)
         IN  IF e = 0 THEN <<Tail(toks)>>
             ELSE <<SubSeq(toks, 2, e - 1)>>
                  \o ParseCells(SubSeq(toks, e + 1, Len(toks)), opens, close)
    ELSE ParseCells(Tail(toks), opens, close)

\* The rows of a table body: the opening tag of each and its cell texts.
RECURSIVE ParseRows(_)
ParseRows(toks) ==
    IF toks = <<>> THEN <<>>
    ELSE LET e == FirstIndex(toks, TR_CLOSE)
             last == IF e = 0 THEN Len(toks) ELSE e - 1
         IN  <<[bg |-> Head(toks),
                cells |-> ParseCells(SubSeq(toks, 2, last), {TD_OPEN}, TD_CLOSE)]>>
             \o (IF e = 0 THEN <<>> ELSE ParseRows(SubSeq(toks, e + 1, Len(toks))))

HeaderTexts == ParseCells(html_report.headers, {TH_OPEN, TH_PLAIN}, TH_CLOSE)
BodyRows    == ParseRows(html_report.table_rows)

InSeq(x, s) == \E i \in DOMAIN s : s[i] = x
Count(x, s) == Cardinality({i \in DOMAIN s : s[i] = x})

\* build_report has returned: html_report is the document built from data.
Built == InSeq("build_report", returned)

(***************************************************************************)
(* The words of the claims                                                 *)
(***************************************************************************)
\* A value that is a number: an int, a float, or text that spells a decimal
\* number ("3", "2.5", "-.5", " 3 ").
Numeric(v) == v.kind \in {"int", "float"} \/ ParseFloat(v.s).ok

\* The number a numeric value stands for, in tenths.
NumberOf(v) == IF v.kind = "int" THEN 10 * v.n
               ELSE IF v.kind = "float" THEN v.n
               ELSE ParseFloat(v.s).v

HasNonNumeric(row) ==
    \/ HasKey(row, "Sales") /\ ~Numeric(Get(row, "Sales", IntV(0)))
    \/ HasKey(row, "Revenue") /\ ~Numeric(Get(row, "Revenue", IntV(0)))

AllNumeric(rows) == \A i \in DOMAIN rows : ~HasNonNumeric(rows[i])

\* The integer a numeric Sales value is coerced to; 0 for a row without one.
SalesNumber(row) ==
    IF HasKey(row, "Sales") THEN Trunc(NumberOf(Get(row, "Sales", IntV(0))), 10) ELSE 0

RevenueNumber(row) ==
    IF HasKey(row, "Revenue") THEN NumberOf(Get(row, "Revenue", IntV(0))) ELSE 0

StatusIsCompleted(row) ==
    /\ HasKey(row, "Status")
    /\ PyLower(PyStr(Get(row, "Status", StrV(<<>>)))) = T_completed

CompletedRows(rows) == Cardinality({i \in DOMAIN rows : StatusIsCompleted(rows[i])})

SumOver(rows, F(_)) == SumSeq([i \in DOMAIN rows |-> F(rows[i])])

AllZero ==
    /\ html_report.total_sales = 0
    /\ html_report.total_revenue = 0
    /\ html_report.completed = 0

\* A Sales value int() accepts and a Revenue value float() accepts.
IntCoercible(v) == v.kind \in {"int", "float"} \/ ParseInt(v.s).ok

NoCoercionFails(rows) ==
    \A i \in DOMAIN rows :
        /\ HasKey(rows[i], "Sales") => IntCoercible(Get(rows[i], "Sales", IntV(0)))
        /\ HasKey(rows[i], "Revenue") => Numeric(Get(rows[i], "Revenue", IntV(0)))

\* What row i of the table is to show: shading by the parity of its index,
\* and the text of each value of the record, in order.
ExpectedRow(rows, i) ==
    [bg    |-> IF (i - 1) % 2 = 0 THEN TR_SHADED ELSE TR_PLAIN,
     cells |-> [j \in DOMAIN rows[i] |-> PyStr(rows[i][j].v)]]

(***************************************************************************)
(* Claims                                                                  *)
(***************************************************************************)
\* C1: when every Sales and every Revenue value of the records is numeric,
\* total_sales is the sum of the integer-coerced Sales values and
\* total_revenue is the sum of the Revenue values.
C1_NumericTotals ==
    (Built /\ AllNumeric(data)) =>
        /\ html_report.total_sales = SumOver(data, SalesNumber)
        /\ html_report.total_revenue = SumOver(data, RevenueNumber)

C3_CompletedCountAlways ==
    Built => html_report.completed = CompletedRows(data)

\* C3 as amended: completed_count is that number whenever no Sales value is
\* refused by int() and no Revenue value by float(); when one is, it is 0.
C3_CompletedCount ==
    Built =>
        html_report.completed =
            (IF NoCoercionFails(data) THEN CompletedRows(data) ELSE 0)

C3_Witness ==
    /\ Built
    /\ NoCoercionFails(data)
    /\ \E i, j, k \in DOMAIN data :
          /\ Get(data[i], "Status", StrV(<<>>)) = StrV(T_Completed)
          /\ Get(data[j], "Status", StrV(<<>>)) = StrV(T_COMPLETED)
          /\ ~StatusIsCompleted(data[k])
    /\ html_report.completed = 2

\* C4: N records give exactly N table rows, in record order, the row at an
\* even index shaded (#f9f7f4) and the row at an odd index plain (#ffffff).
C4_RowsAndShading ==
    Built =>
        /\ Len(BodyRows) = Len(data)
        /\ \A i \in DOMAIN data : BodyRows[i] = ExpectedRow(data, i)

C4_Witness ==
    /\ Built
    /\ Len(data) = 3
    /\ Len(BodyRows) = 3
    /\ BodyRows[1].bg = TR_SHADED /\ BodyRows[2].bg = TR_PLAIN /\ BodyRows[3].bg = TR_SHADED

\* C5: an empty record sequence gives a header row that is the single
\* placeholder cell "No data found", no table row, and three zero metrics.
C5_EmptySheet ==
    (Built /\ data = <<>>) =>
        /\ html_report.headers = <<TH_PLAIN>> \o T_NoData \o <<TH_CLOSE>>
        /\ HeaderTexts = <<T_NoData>>
        /\ BodyRows = <<>>
        /\ AllZero

C5_Witness == Built /\ data = <<>> /\ HeaderTexts = <<T_NoData>>

\* C6: for a non-empty sequence the header cells are, in order and in number,
\* the keys of the first record, whatever the keys of the later ones.
C6_HeadersOfFirst ==
    (Built /\ data # <<>>) =>
        HeaderTexts = [j \in DOMAIN data[1] |-> KeyText(data[1][j].k)]

C6_Witness ==
    /\ Built
    /\ Len(data) >= 2
    /\ Keys(data[1]) # Keys(data[Len(data)])
    /\ Len(HeaderTexts) = Len(data[1])

\* C7: send_email is invoked at most once, and only after get_sheet_data and
\* build_report have both returned; when fetch or build raises, no later
\* stage is invoked and nothing is sent; and the run ends.
C7_Safety ==
    /\ Count("send_email", calls) <= 1
    /\ InSeq("send_email", calls) =>
          /\ Len(returned) >= 2
          /\ SubSeq(returned, 1, 2) = <<"get_sheet_data", "build_report">>
    /\ raised \in {"get_sheet_data", "build_report"} =>
          /\ calls[Len(calls)] = raised
          /\ ~InSeq("send_email", calls)
          /\ outbox = <<>>
    /\ Len(outbox) <= 1

C7_NoPartialSuccess ==
    /\ []C7_Safety
    /\ (raised \in {"get_sheet_data", "build_report"}) ~> (pc = "done")

C7_Witness ==
    /\ pc = "done"
    /\ raised = "build_report"
    /\ calls = <<"get_sheet_data", "build_report">>
    /\ outbox = <<>>

\* C8: a run whose three stages succeed ends with status 0, and a run in
\* which a stage raises ends with a non-zero status, the error and the hint
\* printed.
C8_ExitStatusTellsOutcome ==
    pc = "done" =>
        /\ raised = "none" => exit_status = 0
        /\ raised # "none" =>
              /\ exit_status # 0
              /\ InSeq("error", console) /\ InSeq("hint", console)

\* C9: a record without a Sales key adds 0 to total_sales and does not zero
\* the summary: when the Sales and Revenue values that are there are all
\* numeric, total_sales is the sum over the records that have Sales, and
\* total_revenue and completed_count are computed as usual.
C9_MissingSalesIsZero ==
    (/\ Built
     /\ \E i \in DOMAIN data : ~HasKey(data[i], "Sales")
     /\ AllNumeric(data)) =>
        /\ html_report.total_sales =
              SumOver(SelectSeq(data, LAMBDA r : HasKey(r, "Sales")), SalesNumber)
        /\ html_report.total_revenue = SumOver(data, RevenueNumber)
        /\ html_report.completed = CompletedRows(data)

\* C10: the fallback changes the summary only: with a non-numeric Sales or
\* Revenue value among the records, the header cells are still the keys of
\* the first record and every record, the offending one too, is still a row
\* with its values as they are, in order, shaded by index parity.
C10_FallbackLeavesTable ==
    (Built /\ ~AllNumeric(data)) =>
        /\ HeaderTexts = [j \in DOMAIN data[1] |-> KeyText(data[1][j].k)]
        /\ BodyRows = [i \in DOMAIN data |-> ExpectedRow(data, i)]

C10_Witness ==
    /\ Built
    /\ Len(data) >= 2
    /\ HasNonNumeric(data[2])
    /\ AllZero
    /\ Len(BodyRows) = Len(data)
    /\ BodyRows[2].cells = [j \in DOMAIN data[2] |-> PyStr(data[2][j].v)]

====
